---- MODULE Spec2Model ----
(***************************************************************************)
(* Fairness-aware recommender backend: initial training, artifact loading, *)
(* online adaptation of a new user (fine_tune_user), ranking               *)
(* (recommend_and_explain) and the /fine_tune_recommend request handler.   *)
(*                                                                         *)
(* Numbers are integers: an embedding row is one integer (EMBEDDING_DIM    *)
(* reduced to 1), a rating is an integer in 1..5, a bias value in [0,1] is *)
(* the integer 0..BiasScale, and the sigmoid of the joint bias module is   *)
(* rounded to the nearest score unit.  Python indices are 0-based; the     *)
(* sequences below are 1-based, so row r of a table is table[r + 1].       *)
(***************************************************************************)
EXTENDS Integers, Sequences, FiniteSets, TLC

(***************************************************************************)
(* Bounds of the model and program constants.                              *)
(***************************************************************************)
\* fixed-point resolution of a bias value in [0,1]
BiasScale == 4
\* number of random initialisations (torch seeds) explored: seeds 0..MaxSeed
MaxSeed == 1
\* number of fine_tune_user calls on one loaded instance
MaxCalls == 2
\* train_inital_model.py:26 sets 7000; scaled so that a corpus can have
\* fewer, as many, or more users than the table has rows
NUM_EMBEDDING_USERS == 3
\* train_inital_model.py:32
EPOCHS == 5
\* fine_tune.py:29 sets 300; scaled, one model epoch is one unit step
FINE_TUNE_EPOCHS == 3
\* fine_tune.py:27
LAMBDA_FAIR == 1
\* main.py:202 reduces the hash modulo 10**6; scaled
HashModulus == 6
\* fixed-point resolution of the blended ranking scores
ScoreScale == 10
\* hash seeds a process may start with: 0..MaxHashSeed
MaxHashSeed == 2
\* the values of top_k callers pass
TopKs == {2, 5}

BIAS_COLS == <<"PB", "IB", "DB_gender", "DB_age", "DB_occupation", "DB_zipcode">>

(***************************************************************************)
(* Generic helpers.                                                        *)
(***************************************************************************)
Range(s) == {s[k] : k \in 1..Len(s)}

Abs(x) == IF x < 0 THEN -x ELSE x

Sign(x) == IF x > 0 THEN 1 ELSE IF x < 0 THEN -1 ELSE 0

ReLU(x) == IF x > 0 THEN x ELSE 0

Min(S) == CHOOSE x \in S : \A y \in S : x <= y

Max(S) == CHOOSE x \in S : \A y \in S : x >= y

RECURSIVE SumSeq(_)
SumSeq(s) == IF s = <<>> THEN 0 ELSE s[1] + SumSeq(Tail(s))

RECURSIVE SortedSeq(_)
SortedSeq(S) == IF S = {} THEN <<>> ELSE <<Min(S)>> \o SortedSeq(S \ {Min(S)})

\* a sequence given by a function constructor, evaluated once
AsSeq(f) == f \o <<>>

\* floor division as Python's // and numpy's mean on integers rounded down
FloorDiv(a, b) == a \div b

ZeroBias == AsSeq([c \in 1..Len(BIAS_COLS) |-> 0])

(***************************************************************************)
(* sklearn LabelEncoder as the program uses it.  classes_ is a sequence of *)
(* identities; fit stores the sorted distinct values; transform rejects    *)
(* unseen labels and then calls numpy.searchsorted(classes_, values),      *)
(* a binary search that presumes classes_ sorted; inverse_transform        *)
(* rejects indices outside 0..len(classes_)-1 and indexes classes_.        *)
(***************************************************************************)
LabelEncoder_fit(values) == SortedSeq(Range(values))

\* numpy binsearch, side = left: the inner loop for one key
RECURSIVE binsearch_one(_, _, _, _)
binsearch_one(arr, key_val, min_idx, max_idx) ==
    IF min_idx < max_idx
    THEN LET mid_idx == min_idx + ((max_idx - min_idx) \div 2)
         IN IF arr[mid_idx + 1] < key_val
            THEN binsearch_one(arr, key_val, mid_idx + 1, max_idx)
            ELSE binsearch_one(arr, key_val, min_idx, mid_idx)
    ELSE min_idx

\* numpy binsearch, the loop over the keys: the bounds of the previous key
\* are reused (max_idx is reset when the key grew, min_idx otherwise)
RECURSIVE binsearch_keys(_, _, _, _, _, _)
binsearch_keys(arr, keys, k, last_key_val, min_idx, max_idx) ==
    IF k > Len(keys) THEN <<>>
    ELSE LET key_val == keys[k]
             lo == IF last_key_val < key_val THEN min_idx ELSE 0
             hi == IF last_key_val < key_val THEN Len(arr)
                   ELSE IF max_idx < Len(arr) THEN max_idx + 1 ELSE Len(arr)
             r == binsearch_one(arr, key_val, lo, hi)
         IN <<r>> \o binsearch_keys(arr, keys, k + 1, key_val, r, r)

searchsorted(arr, keys) ==
    IF keys = <<>> THEN <<>>
    ELSE binsearch_keys(arr, keys, 1, keys[1], 0, Len(arr))

\* transform without the test for unseen labels
LabelEncoder_transform_unchecked(classes_, values) ==
    [raised |-> "none", value |-> searchsorted(classes_, values)]

\* transform: [raised, value]
LabelEncoder_transform(classes_, values) ==
    IF values = <<>> THEN [raised |-> "none", value |-> <<>>]
    ELSE IF Range(values) \ Range(classes_) # {}
    THEN [raised |-> "ValueError", value |-> <<>>]
    ELSE [raised |-> "none", value |-> searchsorted(classes_, values)]

LabelEncoder_inverse_transform(classes_, idxs) ==
    IF Range(idxs) \ (0..(Len(classes_) - 1)) # {}
    THEN [raised |-> "ValueError", value |-> <<>>]
    ELSE [raised |-> "none", value |-> AsSeq([k \in 1..Len(idxs) |-> classes_[idxs[k] + 1]])]

(***************************************************************************)
(* Bias features (train_inital_model.build_bias_features).  A raw bias is  *)
(* an exact fraction [n, d]; MinMaxScaler maps a column of fractions to    *)
(* fixed-point values 0..BiasScale.  A users table is [columns, rows], a   *)
(* row a function from column name to value, "nan" for a missing value.    *)
(***************************************************************************)
Frac(n, d) == [n |-> n, d |-> d]

FracLeq(a, b) == a.n * b.d <= b.n * a.d

FracMin(col) == col[CHOOSE k \in 1..Len(col) : \A j \in 1..Len(col) : FracLeq(col[k], col[j])]

FracMax(col) == col[CHOOSE k \in 1..Len(col) : \A j \in 1..Len(col) : FracLeq(col[j], col[k])]

\* a scaler that divides by the maximum without subtracting the minimum
MinMaxScaler_no_shift(col) ==
    IF col = <<>> THEN [raised |-> "ValueError", value |-> <<>>]
    ELSE LET hi == FracMax(col)
         IN [raised |-> "none",
             value |-> AsSeq([k \in 1..Len(col) |->
                 IF hi.n = 0 THEN 0
                 ELSE FloorDiv(col[k].n * hi.d * BiasScale, col[k].d * hi.n)])]

\* sklearn MinMaxScaler.fit_transform on one column: (x - min) / (max - min),
\* a zero range is replaced by 1; an empty column is rejected
MinMaxScaler_fit_transform(col) ==
    IF col = <<>> THEN [raised |-> "ValueError", value |-> <<>>]
    ELSE LET lo == FracMin(col)
             hi == FracMax(col)
             \* x - lo and hi - lo over the common denominator x.d * lo.d * hi.d
             num(x) == (x.n * lo.d - lo.n * x.d) * hi.d
             den(x) == (hi.n * lo.d - lo.n * hi.d) * x.d
         IN [raised |-> "none",
             value |-> AsSeq([k \in 1..Len(col) |->
                 IF den(col[k]) = 0
                 THEN FloorDiv((col[k].n * lo.d - lo.n * col[k].d) * BiasScale,
                               col[k].d * lo.d)
                 ELSE FloorDiv(num(col[k]) * BiasScale, den(col[k]))])]

\* exp(-0.01 * idx) as a fraction of 1000 (second-order expansion)
ExpDecay(idx) == Frac(1000 - 10 * idx + ((idx * idx) \div 20), 1000)

RECURSIVE ConcatAll(_)
ConcatAll(ss) == IF ss = <<>> THEN <<>> ELSE ss[1] \o ConcatAll(Tail(ss))

\* pandas sort_values(["UserID", "Timestamp"]): a stable sort
RECURSIVE InsertSorted(_, _)
InsertSorted(sorted, r) ==
    IF sorted = <<>> THEN <<r>>
    ELSE LET h == sorted[Len(sorted)]
         IN IF h.UserID < r.UserID \/ (h.UserID = r.UserID /\ h.Timestamp <= r.Timestamp)
            THEN Append(sorted, r)
            ELSE Append(InsertSorted(SubSeq(sorted, 1, Len(sorted) - 1), r), h)

\* the rows left in the order they were read
ingestion_order(rows) == rows

RECURSIVE sort_values(_)
sort_values(rows) ==
    IF rows = <<>> THEN <<>>
    ELSE InsertSorted(sort_values(SubSeq(rows, 1, Len(rows) - 1)), rows[Len(rows)])

\* groupby("UserID").cumcount(): number of earlier rows of the same user
cumcount(rows, k) == Cardinality({j \in 1..(k - 1) : rows[j].UserID = rows[k].UserID})

\* the value of group_field the left merge with users attaches to a rating row
AttrOf(users, uid, group_field) ==
    IF \E k \in 1..Len(users.rows) : users.rows[k]["UserID"] = uid
    THEN users.rows[CHOOSE k \in 1..Len(users.rows) : users.rows[k]["UserID"] = uid][group_field]
    ELSE "nan"

\* lines 255-274: the proportion of every ratings row before normalization;
\* groupby leaves out the rows whose group_field is NaN, fillna gives them 0
proportional_bias_raw(ratings_df, users_df, group_field) ==
    LET g(k) == AttrOf(users_df, ratings_df[k].UserID, group_field)
        GroupSize(v) == Cardinality({ratings_df[j].UserID :
                            j \in {i \in 1..Len(ratings_df) : g(i) = v}})
        GroupInteractionCount(v, m) == Cardinality({ratings_df[j].UserID :
                            j \in {i \in 1..Len(ratings_df) :
                                     g(i) = v /\ ratings_df[i].MovieID = m}})
    IN AsSeq([k \in 1..Len(ratings_df) |->
           IF g(k) = "nan" THEN Frac(0, 1)
           ELSE Frac(GroupInteractionCount(g(k), ratings_df[k].MovieID), GroupSize(g(k)))])

\* the function without the test for a missing column: selecting the
\* column raises KeyError
compute_proportional_demographic_bias_strict(ratings_df, users_df, group_field) ==
    IF group_field \notin users_df.columns
    THEN [raised |-> "KeyError", scaled |-> FALSE, value |-> <<>>]
    ELSE LET scale(sc) == [raised |-> sc.raised, scaled |-> TRUE, value |-> sc.value]
         IN scale(MinMaxScaler_fit_transform(
                proportional_bias_raw(ratings_df, users_df, group_field)))

\* utility.compute_proportional_demographic_bias: one value per ratings row,
\* [raised, value]; a missing group_field column yields NaN, later filled by 0
compute_proportional_demographic_bias(ratings_df, users_df, group_field) ==
    IF group_field \notin users_df.columns
    THEN [raised |-> "none", scaled |-> FALSE,
          value |-> AsSeq([k \in 1..Len(ratings_df) |-> 0])]
    ELSE LET scale(sc) == [raised |-> sc.raised, scaled |-> TRUE, value |-> sc.value]
         IN scale(MinMaxScaler_fit_transform(
                proportional_bias_raw(ratings_df, users_df, group_field)))

\* inner merge of bias columns on ["UserID", "MovieID"]: every pair of
\* matching rows yields one row (left order, then right order)
merge_on_user_movie(left, right) ==
    ConcatAll(AsSeq([k \in 1..Len(left) |->
        LET hits == SelectSeq(right, LAMBDA q :
                        q.UserID = left[k].UserID /\ q.MovieID = left[k].MovieID)
        IN AsSeq([j \in 1..Len(hits) |-> [UserID |-> left[k].UserID, MovieID |-> left[k].MovieID,
                                    Rating |-> left[k].Rating,
                                    b |-> left[k].b \o hits[j].b]])]))

\* lines 73-79: the popularity bias PB of every ratings row, [raised, value]
popularity_bias(ratings) ==
    LET n == Len(ratings)
        count(m) == Cardinality({k \in 1..n : ratings[k].MovieID = m})
    IN MinMaxScaler_fit_transform(AsSeq([k \in 1..n |-> Frac(count(ratings[k].MovieID), n)]))

\* the ratings with their PB column, in the order of sort_values
sorted_with_pb(ratings, pb) ==
    sort_values(AsSeq([k \in 1..Len(ratings) |->
        [UserID |-> ratings[k].UserID, MovieID |-> ratings[k].MovieID,
         Rating |-> ratings[k].Rating, Timestamp |-> ratings[k].Timestamp,
         PB |-> IF pb.raised = "none" THEN pb.value[k] ELSE 0]]))

\* lines 83-84: idx and IB = exp(-0.01 * idx) of every row, before scaling
interaction_bias_raw(sorted) ==
    AsSeq([k \in 1..Len(sorted) |-> ExpDecay(cumcount(sorted, k))])

\* lines 82-87: the interaction bias IB, [raised, value]
interaction_bias(sorted) ==
    MinMaxScaler_fit_transform(interaction_bias_raw(sorted))

\* one bias column as a frame [UserID, MovieID, Rating, b]
bias_frame(sorted, column) ==
    AsSeq([k \in 1..Len(sorted) |-> [UserID |-> sorted[k].UserID, MovieID |-> sorted[k].MovieID,
                                     Rating |-> sorted[k].Rating, b |-> <<column[k]>>]])

\* lines 98-106: the merge of the bias columns, [raised, value]
merge_bias_columns(sorted, pb, ib, gender, age, occupation, zipcode) ==
    IF \E c \in {pb, ib, gender, age, occupation, zipcode} : c.raised # "none"
    THEN [raised |-> "ValueError", value |-> <<>>]
    ELSE [raised |-> "none",
          value |-> merge_on_user_movie(
              AsSeq([k \in 1..Len(sorted) |->
                  [UserID |-> sorted[k].UserID, MovieID |-> sorted[k].MovieID,
                   Rating |-> sorted[k].Rating, b |-> <<sorted[k].PB, ib.value[k]>>]]),
              merge_on_user_movie(merge_on_user_movie(merge_on_user_movie(
                  bias_frame(sorted, gender.value), bias_frame(sorted, age.value)),
                  bias_frame(sorted, occupation.value)), bias_frame(sorted, zipcode.value)))]

\* the demographic biases of the sorted ratings and their merge
demographic_biases(users, sorted, pb) ==
    merge_bias_columns(sorted, pb, interaction_bias(sorted),
        compute_proportional_demographic_bias(sorted, users, "Gender"),
        compute_proportional_demographic_bias(sorted, users, "Age"),
        compute_proportional_demographic_bias(sorted, users, "Occupation"),
        compute_proportional_demographic_bias(sorted, users, "Zip-code"))

\* the table built from the ratings and their popularity bias
build_from_pb(users, ratings, pb) ==
    demographic_biases(users, sorted_with_pb(ratings, pb), pb)

\* build_bias_features: [raised, value]; value rows are [UserID, MovieID, Rating, b]
build_bias_features(users, ratings) ==
    build_from_pb(users, ratings, popularity_bias(ratings))

(***************************************************************************)
(* model_classes.NeuralCF and CombinedBiasInteractionModule.               *)
(***************************************************************************)
\* the value torch's initialiser gives parameter number k under a seed
RandInit(seed, k) == ((seed * 3 + k * 2 + (k \div 3)) % 4) - 1

ParamNames == {"user_embedding_mlp", "item_embedding_mlp", "user_embedding_gmf",
               "item_embedding_gmf", "mlp", "output_layer"}

\* NeuralCF.__init__
NeuralCF(num_users, num_items, seed) ==
    [user_embedding_mlp |-> AsSeq([r \in 1..num_users |-> RandInit(seed, r)]),
     item_embedding_mlp |-> AsSeq([r \in 1..num_items |-> RandInit(seed, r + 1)]),
     user_embedding_gmf |-> AsSeq([r \in 1..num_users |-> RandInit(seed + 1, r + 2)]),
     item_embedding_gmf |-> AsSeq([r \in 1..num_items |-> RandInit(seed + 1, r)]),
     mlp |-> [w |-> 1, b |-> RandInit(seed, 0)],
     \* a positive output weight that EPOCHS unit steps cannot bring to zero
     output_layer |-> [w |-> EPOCHS + 1, b |-> RandInit(seed, 1)]]

\* an index tensor can be looked up in the embedding tables
IndexOK(model, user, item) ==
    /\ \A k \in 1..Len(user) : user[k] \in 0..(Len(model.user_embedding_mlp) - 1)
    /\ \A k \in 1..Len(user) : user[k] \in 0..(Len(model.user_embedding_gmf) - 1)
    /\ \A k \in 1..Len(item) : item[k] \in 0..(Len(model.item_embedding_mlp) - 1)
    /\ \A k \in 1..Len(item) : item[k] \in 0..(Len(model.item_embedding_gmf) - 1)

\* pre-activation of the MLP path for one (user, item) pair
mlp_pre(model, u, i) ==
    model.mlp.w * (model.user_embedding_mlp[u + 1] + model.item_embedding_mlp[i + 1])
        + model.mlp.b

\* NeuralCF.forward for one (user, item) pair
forward(model, u, i) ==
    LET mlp_out == ReLU(mlp_pre(model, u, i))
        gmf_out == model.user_embedding_gmf[u + 1] * model.item_embedding_gmf[i + 1]
    IN model.output_layer.w * (gmf_out + mlp_out) + model.output_layer.b

\* CombinedBiasInteractionModule.__init__
CombinedBiasInteractionModule(seed) ==
    [W |-> AsSeq([c \in 1..Len(BIAS_COLS) |-> RandInit(seed, c)]),
     l1 |-> [w |-> 1, b |-> RandInit(seed, 2)],
     l2 |-> [w |-> 1, b |-> RandInit(seed, 3) - BiasScale]]

\* CombinedBiasInteractionModule.forward on one bias vector: 0 or 1
jbf_forward(jbf, bias) ==
    LET emb == AsSeq([c \in 1..Len(BIAS_COLS) |-> ReLU(bias[c]) * jbf.W[c]])
        pairs == {p \in (1..Len(BIAS_COLS)) \X (1..Len(BIAS_COLS)) : p[1] < p[2]}
        RECURSIVE SumPairs(_)
        SumPairs(P) == IF P = {} THEN 0
                       ELSE LET p == CHOOSE q \in P : TRUE
                            IN emb[p[1]] * emb[p[2]] + SumPairs(P \ {p})
        jbf_input == SumSeq(emb) + SumPairs(pairs)
        hidden == ReLU(jbf.l1.w * jbf_input + jbf.l1.b)
        out == jbf.l2.w * hidden + jbf.l2.b
    IN IF out > 0 THEN 1 ELSE 0

(***************************************************************************)
(* One optimizer step.  err[k] is the residual of batch row k (prediction  *)
(* minus target); the gradient of the squared error with respect to a      *)
(* parameter is the sum of err[k] times the derivative of the prediction,  *)
(* and Adam moves each parameter of the trainable set by one unit against  *)
(* the sign of its gradient: a parameter with zero gradient stays put.     *)
(***************************************************************************)
\* the sum of f[k] over the k in S
RECURSIVE SumOver(_, _)
SumOver(S, f) == IF S = {} THEN 0
                 ELSE LET k == CHOOSE q \in S : TRUE IN f[k] + SumOver(S \ {k}, f)

opt_step(model, user, item, err, trainable) ==
    LET K == 1..Len(user)
        act(k) == IF mlp_pre(model, user[k], item[k]) > 0 THEN 1 ELSE 0
        ow == model.output_layer.w
        d_mlp == AsSeq([k \in K |-> err[k] * ow * act(k) * model.mlp.w])
        d_user_gmf == AsSeq([k \in K |-> err[k] * ow * model.item_embedding_gmf[item[k] + 1]])
        d_item_gmf == AsSeq([k \in K |-> err[k] * ow * model.user_embedding_gmf[user[k] + 1]])
        g_user_mlp(r) == SumOver({k \in K : user[k] = r - 1}, d_mlp)
        g_item_mlp(r) == SumOver({k \in K : item[k] = r - 1}, d_mlp)
        g_user_gmf(r) == SumOver({k \in K : user[k] = r - 1}, d_user_gmf)
        g_item_gmf(r) == SumOver({k \in K : item[k] = r - 1}, d_item_gmf)
        g_mlp_w == SumOver(K, AsSeq([k \in K |-> err[k] * ow * act(k)
                       * (model.user_embedding_mlp[user[k] + 1]
                          + model.item_embedding_mlp[item[k] + 1])]))
        g_mlp_b == SumOver(K, AsSeq([k \in K |-> err[k] * ow * act(k)]))
        g_out_w == SumOver(K, AsSeq([k \in K |-> err[k]
                       * (model.user_embedding_gmf[user[k] + 1]
                            * model.item_embedding_gmf[item[k] + 1]
                          + ReLU(mlp_pre(model, user[k], item[k])))]))
        g_out_b == SumOver(K, err)
        upd(name, old, g) == IF name \in trainable THEN old - Sign(g) ELSE old
    IN [user_embedding_mlp |-> AsSeq([r \in 1..Len(model.user_embedding_mlp) |->
            upd("user_embedding_mlp", model.user_embedding_mlp[r], g_user_mlp(r))]),
        item_embedding_mlp |-> AsSeq([r \in 1..Len(model.item_embedding_mlp) |->
            upd("item_embedding_mlp", model.item_embedding_mlp[r], g_item_mlp(r))]),
        user_embedding_gmf |-> AsSeq([r \in 1..Len(model.user_embedding_gmf) |->
            upd("user_embedding_gmf", model.user_embedding_gmf[r], g_user_gmf(r))]),
        item_embedding_gmf |-> AsSeq([r \in 1..Len(model.item_embedding_gmf) |->
            upd("item_embedding_gmf", model.item_embedding_gmf[r], g_item_gmf(r))]),
        mlp |-> [w |-> upd("mlp", model.mlp.w, g_mlp_w),
                 b |-> upd("mlp", model.mlp.b, g_mlp_b)],
        output_layer |-> [w |-> upd("output_layer", model.output_layer.w, g_out_w),
                          b |-> upd("output_layer", model.output_layer.b, g_out_b)]]

(***************************************************************************)
(* Persisted artifacts: the files of the data directory.  `has` is the set *)
(* of files that exist; the other fields are their contents.               *)
(***************************************************************************)
Files == {"combined_biases_with_pred.pkl", "user_encoder.pkl", "item_encoder.pkl",
          "neural_cf_fair_model.pth", "jbf_module.pth"}

NoModel == NeuralCF(0, 0, 0)

NoJbf == CombinedBiasInteractionModule(0)

EmptyDisk == [has |-> {}, bias |-> <<>>, user_encoder |-> <<>>, item_encoder |-> <<>>,
              model |-> NoModel, jbf |-> NoJbf, ratings_dat |-> <<>>]

Column(rows, name) == AsSeq([k \in 1..Len(rows) |-> rows[k][name]])

\* `epochs` full-batch optimizer steps; fair says whether the target is
\* corrected by LAMBDA_FAIR * jbf_module(bias) (fine_tune.py line 134)
RECURSIVE train_loop(_, _, _, _, _, _, _)
train_loop(model, jbf, df, user, item, trainable, epochs) ==
    IF epochs = 0 THEN model
    ELSE LET err == AsSeq([k \in 1..Len(df) |->
                        forward(model, user[k], item[k])
                        - (IF jbf.on THEN LAMBDA_FAIR * jbf_forward(jbf.module, df[k].b) ELSE 0)
                        - df[k].Rating])
         IN train_loop(opt_step(model, user, item, err, trainable), jbf, df, user, item,
                       trainable, epochs - 1)

\* train_inital_model.train_initial: the data directory it leaves behind
\* and whether it raised
train_initial(disk, users, ratings, seed) ==
    LET \* lines 129-162 on the encoders fitted on df
        train(df, user_enc, item_enc) ==
            LET user == LabelEncoder_transform(user_enc, Column(df, "UserID")).value
                item == LabelEncoder_transform(item_enc, Column(df, "MovieID")).value
                model == NeuralCF(NUM_EMBEDDING_USERS, Len(item_enc), seed)
                jbf == CombinedBiasInteractionModule(seed)
                dumped == [disk EXCEPT !.has = @ \cup {"combined_biases_with_pred.pkl",
                                                       "user_encoder.pkl", "item_encoder.pkl"},
                                       !.bias = df, !.user_encoder = user_enc,
                                       !.item_encoder = item_enc]
            IN IF ~IndexOK(model, user, item) THEN [raised |-> "IndexError", disk |-> dumped]
               ELSE [raised |-> "none",
                     disk |-> [dumped EXCEPT
                         !.has = Files,
                         !.model = train_loop(model, [on |-> FALSE, module |-> jbf], df,
                                              user, item, ParamNames, EPOCHS),
                         !.jbf = jbf]]
        fit(built) ==
            IF built.raised # "none" THEN [raised |-> built.raised, disk |-> disk]
            ELSE train(built.value, LabelEncoder_fit(Column(built.value, "UserID")),
                       LabelEncoder_fit(Column(built.value, "MovieID")))
    IN fit(build_bias_features(users, ratings))

\* fine_tune.load_model_and_encoders
load_model_and_encoders(disk) ==
    IF disk.has # Files
    THEN [raised |-> "FileNotFoundError", model |-> NoModel, jbf_module |-> NoJbf,
          user_encoder |-> <<>>, item_encoder |-> <<>>, base_bias_df |-> <<>>]
    ELSE LET real_num_users == Len(disk.model.user_embedding_mlp)
             real_num_items == Len(disk.model.item_embedding_mlp)
             fresh == NeuralCF(real_num_users, real_num_items, 0)
         IN [raised |-> "none",
             model |-> [name \in DOMAIN fresh |-> disk.model[name]],
             jbf_module |-> disk.jbf,
             user_encoder |-> disk.user_encoder,
             item_encoder |-> disk.item_encoder,
             base_bias_df |-> disk.bias]

(***************************************************************************)
(* fine_tune.fine_tune_user.  The encoder and the model are objects the    *)
(* call mutates in place, so what it did before raising stays done: the    *)
(* result is [raised, model, user_enc] in every case.                      *)
(***************************************************************************)
\* mean(0) of an embedding table
mean_row(weight) == FloorDiv(SumSeq(weight), Len(weight))

\* expand_user without the membership test of line 100
expand_user_unguarded(model, user_enc, new_user_id) ==
    [user_enc |-> Append(user_enc, new_user_id),
     model |-> [model EXCEPT
           !.user_embedding_mlp = Append(@, mean_row(model.user_embedding_mlp)),
           !.user_embedding_gmf = Append(@, mean_row(model.user_embedding_gmf))]]

\* lines 100-112: the new identity and one mean row per user table
expand_user(model, user_enc, new_user_id) ==
    IF new_user_id \notin Range(user_enc)
    THEN [user_enc |-> Append(user_enc, new_user_id),
          model |-> [model EXCEPT
                !.user_embedding_mlp = Append(@, mean_row(model.user_embedding_mlp)),
                !.user_embedding_gmf = Append(@, mean_row(model.user_embedding_gmf))]]
    ELSE [user_enc |-> user_enc, model |-> model]

\* bias_df[["MovieID"] + BIAS_COLS].drop_duplicates(): first occurrences, in order
RECURSIVE drop_duplicates(_)
drop_duplicates(rows) ==
    IF rows = <<>> THEN <<>>
    ELSE LET front == drop_duplicates(SubSeq(rows, 1, Len(rows) - 1))
             r == [MovieID |-> rows[Len(rows)].MovieID, b |-> rows[Len(rows)].b]
         IN IF r \in Range(front) THEN front ELSE Append(front, r)

\* the merge of line 119 as an inner merge: unmatched ratings are dropped
merge_inner_bias(new_user_ratings, bias_merge) ==
    ConcatAll(AsSeq([k \in 1..Len(new_user_ratings) |->
        LET hits == SelectSeq(bias_merge, LAMBDA q : q.MovieID = new_user_ratings[k].MovieID)
        IN AsSeq([j \in 1..Len(hits) |->
               [user |-> new_user_ratings[k].user, item |-> new_user_ratings[k].item,
                MovieID |-> new_user_ratings[k].MovieID,
                Rating |-> new_user_ratings[k].Rating, b |-> hits[j].b]])]))

\* new_user_ratings.merge(bias_merge, on="MovieID", how="left").fillna(0.0)
merge_left_bias(new_user_ratings, bias_merge) ==
    ConcatAll(AsSeq([k \in 1..Len(new_user_ratings) |->
        LET hits == SelectSeq(bias_merge, LAMBDA q : q.MovieID = new_user_ratings[k].MovieID)
            row(b) == [user |-> new_user_ratings[k].user, item |-> new_user_ratings[k].item,
                       MovieID |-> new_user_ratings[k].MovieID,
                       Rating |-> new_user_ratings[k].Rating, b |-> b]
        IN IF hits = <<>> THEN <<row(ZeroBias)>>
           ELSE AsSeq([j \in 1..Len(hits) |-> row(hits[j].b)])]))

\* lines 127-128: requires_grad = ("user_embedding" in name)
requires_grad == {name \in ParamNames :
                     name \in {"user_embedding_mlp", "user_embedding_gmf"}}

fine_tune_user(model, jbf, user_enc, item_enc, bias_df, new_user_id, new_user_ratings) ==
    LET \* lines 121-139 on the merged frame
        train(ex, df) ==
            IF ~IndexOK(ex.model, Column(df, "user"), Column(df, "item"))
            THEN [raised |-> "IndexError", model |-> ex.model, user_enc |-> ex.user_enc,
                  df |-> df]
            ELSE [raised |-> "none", df |-> df,
                  model |-> train_loop(ex.model, [on |-> TRUE, module |-> jbf], df,
                                       Column(df, "user"), Column(df, "item"),
                                       requires_grad, FINE_TUNE_EPOCHS),
                  user_enc |-> ex.user_enc]
        \* lines 115-119 on the transformed identities
        merge(ex, user, item) ==
            IF user.raised # "none" \/ item.raised # "none"
            THEN [raised |-> "ValueError", model |-> ex.model, user_enc |-> ex.user_enc,
                  df |-> <<>>]
            ELSE train(ex, merge_left_bias(
                     AsSeq([k \in 1..Len(new_user_ratings) |->
                         [user |-> user.value[k], item |-> item.value[k],
                          MovieID |-> new_user_ratings[k].MovieID,
                          Rating |-> new_user_ratings[k].Rating]]),
                     drop_duplicates(bias_df)))
        encode(ex) ==
            merge(ex, LabelEncoder_transform(ex.user_enc, Column(new_user_ratings, "UserID")),
                  LabelEncoder_transform(item_enc, Column(new_user_ratings, "MovieID")))
    IN encode(expand_user(model, user_enc, new_user_id))

(***************************************************************************)
(* fine_tune.recommend_and_explain.  The scores of the similarity blend    *)
(* are fixed-point numbers with ScoreScale units per score point.          *)
(***************************************************************************)
\* data/movies.dat
movies == <<[MovieID |-> 1, Title |-> "t1", Genres |-> <<"Action", "Comedy">>],
            [MovieID |-> 2, Title |-> "t2", Genres |-> <<"Comedy">>],
            [MovieID |-> 3, Title |-> "t3", Genres |-> <<"Drama">>],
            [MovieID |-> 4, Title |-> "t4", Genres |-> <<"Action">>]>>

MovieRow(mid) == movies[CHOOSE k \in 1..Len(movies) : movies[k].MovieID = mid]

InMovies(mid) == \E k \in 1..Len(movies) : movies[k].MovieID = mid

RECURSIVE IsqrtFrom(_, _)
IsqrtFrom(n, r) == IF (r + 1) * (r + 1) > n THEN r ELSE IsqrtFrom(n, r + 1)

\* (x - mean) / (std(unbiased=False).clamp(min=0.2) + eps), in ScoreScale units
zscore(x) ==
    LET n == Len(x)
        mean == FloorDiv(SumSeq(x), n)
        var == FloorDiv(SumSeq(AsSeq([k \in 1..n |-> (x[k] - mean) * (x[k] - mean)])), n)
        min_std == FloorDiv(ScoreScale, 5)
        std == IF IsqrtFrom(var, 0) < min_std THEN min_std ELSE IsqrtFrom(var, 0)
    IN AsSeq([k \in 1..n |-> FloorDiv((x[k] - mean) * ScoreScale, std)])

\* lines 164-166: the first bias row of every encoded item, zeros if none
item_bias(base_bias_df, item_classes) ==
    AsSeq([k \in 1..Len(item_classes) |->
        LET hits == SelectSeq(base_bias_df, LAMBDA q : q.MovieID = item_classes[k])
        IN IF hits = <<>> THEN ZeroBias ELSE hits[1].b])

\* lines 171-173: preds - LAMBDA_FAIR * jbf_module(bias_t), one per item
fair_preds(model, jbf_module, uid, bias_t) ==
    AsSeq([k \in 1..Len(bias_t) |->
        forward(model, uid, k - 1) - LAMBDA_FAIR * jbf_forward(jbf_module, bias_t[k])])

\* lines 180-251, the body of the try: [raised, value]
genre_blend(item_classes, fair, ratings_input) ==
    LET all_genres == UNION {Range(movies[k].Genres) : k \in 1..Len(movies)}
        Genres(idx) == IF InMovies(item_classes[idx]) THEN Range(MovieRow(item_classes[idx]).Genres)
                       ELSE {}
        \* fair_z + ALPHA * sim_z with ALPHA = 0.35, in units of ScoreScale / 100
        combine(fair_z, sim_z) == AsSeq([k \in 1..Len(fair) |-> 100 * fair_z[k] + 35 * sim_z[k]])
        \* genre_matrix @ user_genre_pref for the preference vector pref
        similarity(pref, total) ==
            AsSeq([idx \in 1..Len(item_classes) |->
                IF total > 0
                THEN FloorDiv(ScoreScale * SumOver(Genres(idx), pref), total)
                ELSE FloorDiv(ScoreScale * Cardinality(Genres(idx)), Cardinality(all_genres))])
        normalise(pref) == similarity(pref, SumOver(all_genres, pref))
        \* selected_genres.T @ scores
        prefer(item_indices) ==
            IF item_indices.raised # "none" THEN [raised |-> "ValueError", value |-> <<>>]
            ELSE [raised |-> "none",
                  value |-> combine(
                      zscore(AsSeq([k \in 1..Len(fair) |-> fair[k] * ScoreScale])),
                      zscore(normalise([g \in all_genres |->
                          SumOver({k \in 1..Len(ratings_input) :
                                      g \in Genres(item_indices.value[k] + 1)},
                                  Column(ratings_input, "rating"))])))]
    IN prefer(LabelEncoder_transform(item_classes, Column(ratings_input, "movieId")))

\* the index sequences torch.topk may return: the k largest scores in
\* descending order, the order among equal scores being unspecified
TopK(scores, k) ==
    {t \in [1..k -> 0..(Len(scores) - 1)] :
        /\ \A a, b \in 1..k : a < b => (t[a] # t[b] /\ scores[t[a] + 1] >= scores[t[b] + 1])
        /\ \A j \in 0..(Len(scores) - 1) :
               (\A a \in 1..k : t[a] # j) => \A a \in 1..k : scores[t[a] + 1] >= scores[j + 1]}

\* lines 157-261: what is ranked, [raised, final_scores, bias_df]
rank_scores(model, jbf_module, user_encoder, item_encoder, base_bias_df, new_user_id, ratings_input, top_k) ==
    LET num_items == Len(item_encoder)
        \* lines 184-261
        select(bias_t, fair, blend) ==
            IF top_k > num_items
            THEN [raised |-> "RuntimeError", final_scores |-> <<>>, bias_df |-> bias_t]
            ELSE [raised |-> "none", bias_df |-> bias_t,
                  final_scores |-> IF blend.raised = "none" THEN blend.value ELSE fair]
        \* lines 178-255
        personalise(bias_t, fair) ==
            IF ratings_input = <<>>
            THEN [raised |-> "UnboundLocalError", final_scores |-> <<>>, bias_df |-> bias_t]
            ELSE select(bias_t, fair, genre_blend(item_encoder, fair, ratings_input))
        \* lines 160-173
        score(uid, bias_t) ==
            IF uid.raised # "none"
            THEN [raised |-> "ValueError", final_scores |-> <<>>, bias_df |-> bias_t]
            ELSE IF ~IndexOK(model, <<uid.value[1]>>, AsSeq([k \in 1..num_items |-> k - 1]))
            THEN [raised |-> "IndexError", final_scores |-> <<>>, bias_df |-> bias_t]
            ELSE personalise(bias_t, fair_preds(model, jbf_module, uid.value[1], bias_t))
    IN score(LabelEncoder_transform(user_encoder, <<new_user_id>>),
             item_bias(base_bias_df, item_encoder))

\* lines 269-288: the result entry of one recommended item; client is the
\* set of items for which the LLM call fails
result_entry(mid, bias_row, client) ==
    [movie_id |-> mid,
     title |-> MovieRow(mid).Title,
     \* get_M_i keeps the first genre as the category
     genres |-> <<MovieRow(mid).Genres[1]>>,
     \* softmax(raw_bias_vec), given by its shifted logits raw_bias_vec - max
     E_ui |-> AsSeq([c \in 1..Len(BIAS_COLS) |-> bias_row[c] - Max(Range(bias_row))]),
     explanation |-> IF mid \in client THEN "[LLM generation failed]" ELSE "text"]

\* the results list when an item whose LLM call fails is left out
explain_dropping_failed(item_encoder, bias_df, top_idx, client) ==
    LET kept == SelectSeq(top_idx, LAMBDA i : item_encoder[i + 1] \notin client)
    IN AsSeq([k \in 1..Len(kept) |->
           result_entry(item_encoder[kept[k] + 1], bias_df[kept[k] + 1], client)])

\* the results list for the indices top_idx chosen by torch.topk
explain(item_encoder, bias_df, top_idx, client) ==
    AsSeq([k \in 1..Len(top_idx) |->
        result_entry(item_encoder[top_idx[k] + 1], bias_df[top_idx[k] + 1], client)])

(***************************************************************************)
(* main.fine_tune_recommend, the handler of POST /fine_tune_recommend.     *)
(***************************************************************************)
Uids == {"alice", "bob", "carol"}

\* the uids that have a document in the Firestore collection "users"
Profiles == {"alice", "carol"}

\* Python's hash(uid) of a str: salted by the hash seed of the process
StrHash(uid, seed) ==
    IF uid = "alice" THEN (IF seed = 0 THEN -5 ELSE IF seed = 1 THEN 8 ELSE 12 + seed)
    ELSE IF uid = "carol" THEN 4 * (seed + 1)
    ELSE (IF seed = 0 THEN 3 ELSE -4 - seed)

\* line 202
numeric_id_of(uid, seed) == Abs(StrHash(uid, seed)) % HashModulus

\* the parameters of recommend_and_explain that have no default (line 148-152)
recommend_and_explain_required ==
    <<"model", "jbf_module", "user_encoder", "item_encoder", "base_bias_df", "new_user_id",
      "user_profile", "users", "movies", "ratings", "client", "theta_u", "ratings_input">>

\* the positional arguments of the call at main.py lines 232-235
handler_call_args ==
    <<"model", "jbf_module", "user_enc", "item_enc", "bias_df", "numeric_id", "user_data",
      "users", "movies", "ratings_all", "client">>

\* Python binds a call only if every parameter without default gets a value
call_binds(args, required) == Len(args) >= Len(required)

\* the handler: [status, detail, numeric_id, adapted, recommendations].
\* Every exception of the try block, HTTPException included, reaches the
\* except clause of line 245 and becomes a 500.
fine_tune_recommend(disk, payload, uid, seed) ==
    LET numeric_id == numeric_id_of(uid, seed)
        error(detail, adapted, user_enc) ==
            [status |-> 500, detail |-> detail, numeric_id |-> numeric_id,
             adapted |-> adapted, user_enc |-> user_enc, recommendations |-> <<>>]
        \* lines 226-243
        recommend(tuned) ==
            IF tuned.raised # "none" THEN error(tuned.raised, FALSE, <<>>)
            ELSE IF ~call_binds(handler_call_args, recommend_and_explain_required)
            THEN error("TypeError", TRUE, tuned.user_enc)
            ELSE [status |-> 200, detail |-> "", numeric_id |-> numeric_id, adapted |-> TRUE,
                  user_enc |-> tuned.user_enc, recommendations |-> <<"text">>]
        \* lines 186-224
        serve(loaded) ==
            IF loaded.raised # "none" THEN error(loaded.raised, FALSE, <<>>)
            ELSE IF uid \notin Profiles THEN error("404: User not found", FALSE, <<>>)
            ELSE IF payload = <<>> THEN error("400: No ratings provided", FALSE, <<>>)
            ELSE recommend(fine_tune_user(
                     loaded.model, loaded.jbf_module, loaded.user_encoder,
                     loaded.item_encoder, loaded.base_bias_df, numeric_id,
                     AsSeq([k \in 1..Len(payload) |->
                         [UserID |-> numeric_id, MovieID |-> payload[k].movieId,
                          Rating |-> payload[k].rating]])))
    IN serve(load_model_and_encoders(disk))

(***************************************************************************)
(* firebase_admin_init.init_firebase_app.  An app is the number of the     *)
(* firebase_admin.initialize_app call that made it, 0 stands for None.     *)
(***************************************************************************)
\* values of GOOGLE_APPLICATION_CREDENTIALS: unset, a path that does not
\* exist, a file that is no service account, a service account file
CredPaths == {"", "missing.json", "notes.txt", "sa.json"}

\* os.path.exists
PathExists(cred_path) == cred_path \in {"notes.txt", "sa.json"}

\* the function without the test of the cache: initialises at every call
init_firebase_app_uncached(app, initialised, cred_path) ==
    IF cred_path = "" \/ ~PathExists(cred_path)
    THEN [raised |-> "RuntimeError", app |-> app, returned |-> 0, initialised |-> FALSE]
    ELSE IF cred_path # "sa.json"
    THEN [raised |-> "ValueError", app |-> app, returned |-> 0, initialised |-> FALSE]
    ELSE [raised |-> "none", app |-> initialised + 1, returned |-> initialised + 1,
          initialised |-> TRUE]

\* lines 45-53 with _app = app after `initialised` initialisations:
\* [raised, app, returned, initialised]
init_firebase_app(app, initialised, cred_path) ==
    IF app # 0
    THEN [raised |-> "none", app |-> app, returned |-> app, initialised |-> FALSE]
    ELSE IF cred_path = "" \/ ~PathExists(cred_path)
    THEN [raised |-> "RuntimeError", app |-> app, returned |-> 0, initialised |-> FALSE]
    \* credentials.Certificate rejects a file that is no service account
    ELSE IF cred_path # "sa.json"
    THEN [raised |-> "ValueError", app |-> app, returned |-> 0, initialised |-> FALSE]
    ELSE [raised |-> "none", app |-> initialised + 1, returned |-> initialised + 1,
          initialised |-> TRUE]

(***************************************************************************)
(* Inputs.                                                                 *)
(***************************************************************************)
UserRow(id, gender) == [c \in {"UserID", "Gender", "Age", "Occupation", "Zip-code"} |->
                           IF c = "UserID" THEN id
                           ELSE IF c = "Gender" THEN gender
                           ELSE IF c = "Age" THEN (IF id = 2 THEN "18" ELSE "25")
                           ELSE IF c = "Occupation" THEN (IF id = 1 THEN "nan" ELSE "clerk")
                           ELSE "zip"]

UsersTable == [columns |-> {"UserID", "Gender", "Age", "Occupation", "Zip-code"},
               rows |-> <<UserRow(1, "M"), UserRow(2, "F"), UserRow(3, "M"),
                          UserRow(4, "F")>>]

\* no profile table
NoUsers == [columns |-> {}, rows |-> <<>>]

\* the profile table without the column group_field
WithoutColumn(users, group_field) ==
    [columns |-> users.columns \ {group_field},
     rows |-> AsSeq([k \in 1..Len(users.rows) |->
                 [c \in users.columns \ {group_field} |-> users.rows[k][c]]])]

Rate(u, m, r, t) == [UserID |-> u, MovieID |-> m, Rating |-> r, Timestamp |-> t]

\* longest corpus the bias job is explored on
MaxBiasRows == 3

\* calls of init_firebase_app explored in one process
MaxInitCalls == 3

\* the rating rows those corpora are made of: user 1 twice on movie 1, two
\* rows of user 1 at one timestamp, user 2 on both movies
BiasRatings == {Rate(1, 1, 4, 10), Rate(1, 2, 2, 10), Rate(1, 1, 5, 20), Rate(2, 1, 3, 10),
                Rate(2, 2, 4, 20)}

\* the profile tables the bias job is explored on
BiasUsers == {UsersTable, WithoutColumn(UsersTable, "Age")}

\* three users on four items
CorpusA == <<Rate(1, 1, 5, 10), Rate(1, 2, 3, 20), Rate(2, 1, 4, 10), Rate(3, 3, 5, 30),
             Rate(3, 4, 2, 40)>>

\* users 1 and 3 on items 1 and 2
CorpusB == <<Rate(3, 2, 5, 30), Rate(1, 1, 4, 20), Rate(3, 1, 3, 10)>>

\* four users on items 1 and 2
CorpusC == <<Rate(1, 1, 4, 10), Rate(2, 1, 5, 10), Rate(3, 2, 2, 10), Rate(4, 2, 3, 10)>>

\* the corpora the offline jobs are run on
Corpora == {CorpusA, CorpusB, CorpusC, <<>>}

\* rating batches [movieId, rating] a caller sends
Batch12 == <<[movieId |-> 1, rating |-> 5], [movieId |-> 2, rating |-> 3]>>

Batch3 == <<[movieId |-> 3, rating |-> 4]>>

Batches == {<<>>, Batch12, Batch3}

\* the numeric identities a request can hash to
UserIds == 0..(HashModulus - 1)

\* the calls of fine_tune_user explored: <<new_user_id, batch>>
AdaptCalls == {<<0, Batch12>>, <<2, Batch12>>, <<HashModulus - 1, Batch3>>,
               <<HashModulus - 2, <<>> >>}

\* the calls of recommend_and_explain explored:
\* <<new_user_id, ratings_input, top_k, client>>, client being the set of
\* items for which the LLM completion fails
RankCalls == {<<1, Batch12, 2, {}>>, <<1, Batch12, 2, {1}>>, <<1, <<>>, 2, {}>>,
              <<1, Batch12, 5, {}>>, <<2, Batch12, 2, {}>>, <<0, Batch12, 2, {}>>,
              <<1, Batch3, 2, {}>>}

\* the fine_tune_user calls that precede a ranking
RankAdaptCalls == {<<0, Batch12>>, <<2, Batch12>>}

(***************************************************************************)
(* State.                                                                  *)
(***************************************************************************)
VARIABLES
    disk,       \* the data directory
    mem,        \* the objects load_model_and_encoders returned to a caller
    hashseed,   \* the hash seed of the running process
    last,       \* the last operation: its arguments and what it returned
    heap,       \* the objects the requests in flight have loaded, one record per load
    reqs,       \* the requests to /fine_tune_recommend in flight: position and locals
    firebase    \* firebase_admin_init: the global _app and the calls of this process

vars == <<disk, mem, hashseed, last, heap, reqs, firebase>>

\* adapted lists the new_user_id of the fine_tune_user calls made on the
\* loaded objects, in call order
NotLoaded == [loaded |-> FALSE, adapted |-> <<>>, model |-> NoModel, jbf_module |-> NoJbf,
              user_encoder |-> <<>>, item_encoder |-> <<>>, base_bias_df |-> <<>>]

Op(op, raised) == [op |-> op, raised |-> raised, corpus |-> <<>>, users |-> NoUsers, uid |-> "",
                   new_user_id |-> 0, ratings |-> <<>>, top_k |-> 0, client |-> {},
                   df |-> <<>>, final_scores |-> <<>>, top_idx |-> <<>>, results |-> <<>>,
                   response |-> [status |-> 0]]

\* the requests that may be in flight at once
Requests == {"r1", "r2"}

\* the module firebase_admin_init as imported: _app = None (0), no call yet
NoFirebase == [app |-> 0, log |-> <<>>]

\* a request that has not arrived
IdleRequest == [pc |-> "idle", uid |-> "", payload |-> <<>>, numeric_id |-> 0, inst |-> 0,
                read |-> [user_enc |-> <<>>, model |-> NoModel],
                wrote |-> [user_enc |-> <<>>, rows |-> 0],
                response |-> [status |-> 0, detail |-> ""]]

Init ==
    /\ disk = EmptyDisk
    /\ mem = NotLoaded
    /\ hashseed \in 0..MaxHashSeed
    /\ last = Op("start", "none")
    /\ heap = <<>>
    /\ reqs = [r \in Requests |-> IdleRequest]
    /\ firebase = NoFirebase

\* the offline job build_bias_features on a corpus: rewrites the bias table.
\* The offline jobs run while no caller holds loaded objects, so that disk
\* is what the objects of mem were loaded from.
BuildBiasFeaturesOn(users, ratings) ==
    /\ ~mem.loaded
    /\ LET built == build_bias_features(users, ratings)
       IN /\ disk' = IF built.raised = "none"
                     THEN [disk EXCEPT !.has = @ \cup {"combined_biases_with_pred.pkl"},
                                       !.bias = built.value]
                     ELSE disk
          /\ last' = [Op("build_bias_features", built.raised) EXCEPT
                         !.corpus = ratings, !.users = users]
    /\ UNCHANGED <<mem, hashseed, heap, reqs, firebase>>

\* the job on the profile table users.dat
BuildBiasFeatures(ratings) == BuildBiasFeaturesOn(UsersTable, ratings)

\* one more row in data/ratings.dat, which load_ml1m reads
AppendRating(row) ==
    /\ Len(disk.ratings_dat) < MaxBiasRows
    /\ disk' = [disk EXCEPT !.ratings_dat = Append(@, row)]
    /\ last' = Op("append_rating", "none")
    /\ UNCHANGED <<mem, hashseed, heap, reqs, firebase>>

\* the offline job train_initial on a corpus
TrainInitial(ratings, seed) ==
    /\ ~mem.loaded
    /\ LET t == train_initial(disk, UsersTable, ratings, seed)
       IN /\ disk' = t.disk
          /\ last' = [Op("train_initial", t.raised) EXCEPT !.corpus = ratings]
    /\ UNCHANGED <<mem, hashseed, heap, reqs, firebase>>

\* a caller loads the artifacts
LoadModelAndEncoders ==
    /\ LET l == load_model_and_encoders(disk)
       IN /\ mem' = IF l.raised = "none"
                    THEN [loaded |-> TRUE, adapted |-> <<>>, model |-> l.model,
                          jbf_module |-> l.jbf_module, user_encoder |-> l.user_encoder,
                          item_encoder |-> l.item_encoder, base_bias_df |-> l.base_bias_df]
                    ELSE mem
          /\ last' = Op("load_model_and_encoders", l.raised)
    /\ UNCHANGED <<disk, hashseed, heap, reqs, firebase>>

\* a caller adapts the loaded objects to the ratings of user new_user_id
FineTuneUser(new_user_id, batch) ==
    /\ mem.loaded
    /\ Len(mem.adapted) < MaxCalls
    /\ LET new_user_ratings == AsSeq([k \in 1..Len(batch) |->
                                   [UserID |-> new_user_id, MovieID |-> batch[k].movieId,
                                    Rating |-> batch[k].rating]])
           t == fine_tune_user(mem.model, mem.jbf_module, mem.user_encoder,
                               mem.item_encoder, mem.base_bias_df,
                               new_user_id, new_user_ratings)
       IN /\ mem' = [mem EXCEPT !.model = t.model, !.user_encoder = t.user_enc,
                                !.adapted = Append(@, new_user_id)]
          /\ last' = [Op("fine_tune_user", t.raised) EXCEPT
                         !.new_user_id = new_user_id, !.ratings = batch, !.df = t.df]
    /\ UNCHANGED <<disk, hashseed, heap, reqs, firebase>>

\* a caller ranks for user new_user_id on the loaded objects
RecommendAndExplain(new_user_id, ratings_input, top_k, client) ==
    /\ mem.loaded
    /\ LET r == rank_scores(mem.model, mem.jbf_module, mem.user_encoder, mem.item_encoder,
                            mem.base_bias_df, new_user_id, ratings_input, top_k)
       IN IF r.raised # "none"
          THEN last' = [Op("recommend_and_explain", r.raised) EXCEPT
                           !.new_user_id = new_user_id, !.ratings = ratings_input,
                           !.top_k = top_k, !.client = client]
          ELSE \E top_idx \in TopK(r.final_scores, top_k) :
                  last' = [Op("recommend_and_explain", "none") EXCEPT
                              !.new_user_id = new_user_id, !.ratings = ratings_input,
                              !.top_k = top_k, !.client = client,
                              !.final_scores = r.final_scores, !.top_idx = top_idx,
                              !.results = explain(mem.item_encoder, r.bias_df, top_idx, client)]
    /\ UNCHANGED <<disk, mem, hashseed, heap, reqs, firebase>>

\* one request POST /fine_tune_recommend, served from the data directory
FineTuneRecommend(uid, payload) ==
    /\ last' = [Op("fine_tune_recommend", "none") EXCEPT
                   !.uid = uid, !.ratings = payload,
                   !.response = fine_tune_recommend(disk, payload, uid, hashseed)]
    /\ UNCHANGED <<disk, mem, hashseed, heap, reqs, firebase>>

\* the process ends and another starts: its objects are gone, its hash
\* seed is drawn again
Restart ==
    /\ mem' = NotLoaded
    /\ hashseed' \in 0..MaxHashSeed
    /\ last' = Op("restart", "none")
    /\ heap' = <<>>
    /\ reqs' = [r \in Requests |-> IdleRequest]
    /\ firebase' = NoFirebase
    /\ UNCHANGED disk

\* the offline jobs
Offline ==
    \/ \E ratings \in Corpora : BuildBiasFeatures(ratings)
    \/ \E ratings \in Corpora, seed \in 0..MaxSeed : TrainInitial(ratings, seed)

Next ==
    \/ Offline
    \/ LoadModelAndEncoders
    \/ \E c \in AdaptCalls : FineTuneUser(c[1], c[2])
    \/ \E c \in RankCalls : RecommendAndExplain(c[1], c[2], c[3], c[4])
    \/ \E uid \in Uids, payload \in Batches : FineTuneRecommend(uid, payload)
    \/ Restart

Spec == Init /\ [][Next]_vars

\* the offline jobs and direct callers of fine_tune_user
NextAdapt ==
    \/ Offline
    \/ LoadModelAndEncoders
    \/ \E c \in AdaptCalls : FineTuneUser(c[1], c[2])
    \/ Restart

SpecAdapt == Init /\ [][NextAdapt]_vars

\* the offline jobs and direct callers of recommend_and_explain
NextRank ==
    \/ Offline
    \/ LoadModelAndEncoders
    \/ \E c \in RankAdaptCalls : FineTuneUser(c[1], c[2])
    \/ \E c \in RankCalls : RecommendAndExplain(c[1], c[2], c[3], c[4])
    \/ Restart

SpecRank == Init /\ [][NextRank]_vars

\* the offline jobs and the HTTP service
NextServe ==
    \/ Offline
    \/ \E uid \in Uids, payload \in Batches : FineTuneRecommend(uid, payload)
    \/ Restart

SpecServe == Init /\ [][NextServe]_vars

\* a caller initialises Firebase with the environment's credentials path
InitFirebaseApp(cred_path) ==
    /\ Len(firebase.log) < MaxInitCalls
    /\ LET done == Cardinality({k \in 1..Len(firebase.log) : firebase.log[k].initialised})
           r == init_firebase_app(firebase.app, done, cred_path)
       IN /\ firebase' = [app |-> r.app,
                          log |-> Append(firebase.log,
                                         [cred_path |-> cred_path, raised |-> r.raised,
                                          returned |-> r.returned,
                                          initialised |-> r.initialised])]
          /\ last' = Op("init_firebase_app", r.raised)
    /\ UNCHANGED <<disk, mem, hashseed, heap, reqs>>

\* the callers of init_firebase_app in one process after another
NextFirebase ==
    \/ \E cred_path \in CredPaths : InitFirebaseApp(cred_path)
    \/ Restart

SpecFirebase == Init /\ [][NextFirebase]_vars

\* the bias job alone, on every corpus ratings.dat grows through
NextBias ==
    \/ \E row \in BiasRatings : AppendRating(row)
    \/ \E users \in BiasUsers : BuildBiasFeaturesOn(users, disk.ratings_dat)

SpecBias == Init /\ [][NextBias]_vars

(***************************************************************************)
(* The handler fine_tune_recommend statement by statement, for requests    *)
(* in flight at once.  The event loop runs an async handler that never     *)
(* awaits to its end before it starts another; the steps below may         *)
(* interleave freely, which includes those runs and the runs of a server   *)
(* that gives each request a thread.                                       *)
(***************************************************************************)
\* the instance a load gives one shared by every request of the process
allocate_shared(heap_, objects) ==
    IF heap_ = <<>> THEN [heap |-> <<objects>>, inst |-> 1]
    ELSE [heap |-> heap_, inst |-> 1]

\* main.py line 186: each call of load_model_and_encoders builds new objects
\* (joblib.load, NeuralCF(...), CombinedBiasInteractionModule(...))
allocate(heap_, objects) ==
    [heap |-> Append(heap_, objects), inst |-> Len(heap_) + 1]

\* the (uid, payload) of the requests in flight
ConcurrentCalls == {<<"alice", Batch12>>, <<"carol", Batch3>>, <<"bob", Batch3>>}

Finish(r, status, detail) ==
    reqs' = [reqs EXCEPT ![r].pc = "done",
                         ![r].response = [status |-> status, detail |-> detail]]

\* a request arrives
Arrive(r, uid, payload) ==
    /\ reqs[r].pc = "idle"
    /\ reqs' = [reqs EXCEPT ![r].pc = "load", ![r].uid = uid, ![r].payload = payload]
    /\ UNCHANGED <<disk, mem, hashseed, last, heap, firebase>>

\* lines 186-202: load, the profile and payload tests, the numeric id
HandlerLoad(r) ==
    /\ reqs[r].pc = "load"
    /\ LET l == load_model_and_encoders(disk)
           a == allocate(heap, [model |-> l.model, jbf_module |-> l.jbf_module,
                                user_encoder |-> l.user_encoder,
                                item_encoder |-> l.item_encoder,
                                base_bias_df |-> l.base_bias_df])
       IN IF l.raised # "none"
          THEN Finish(r, 500, l.raised) /\ UNCHANGED heap
          ELSE /\ heap' = a.heap
               /\ IF reqs[r].uid \notin Profiles THEN Finish(r, 500, "404: User not found")
                  ELSE IF reqs[r].payload = <<>>
                  THEN Finish(r, 500, "400: No ratings provided")
                  ELSE reqs' = [reqs EXCEPT
                                   ![r].pc = "expand_read", ![r].inst = a.inst,
                                   ![r].numeric_id = numeric_id_of(reqs[r].uid, hashseed)]
    /\ UNCHANGED <<disk, mem, hashseed, last, firebase>>

\* fine_tune.py lines 100-110, the reads: classes_ and the two user tables
ExpandRead(r) ==
    /\ reqs[r].pc = "expand_read"
    /\ reqs' = [reqs EXCEPT ![r].pc = "expand_write",
                            ![r].read = [user_enc |-> heap[reqs[r].inst].user_encoder,
                                         model |-> heap[reqs[r].inst].model]]
    /\ UNCHANGED <<disk, mem, hashseed, last, heap, firebase>>

\* fine_tune.py lines 101-112, the assignments: nothing is assigned when
\* the identity was in classes_
ExpandWrite(r) ==
    /\ reqs[r].pc = "expand_write"
    /\ LET req == reqs[r]
           ex == expand_user(req.read.model, req.read.user_enc, req.numeric_id)
       IN /\ heap' = IF req.numeric_id \in Range(req.read.user_enc) THEN heap
                     ELSE [heap EXCEPT
                              ![req.inst].user_encoder = ex.user_enc,
                              ![req.inst].model.user_embedding_mlp = ex.model.user_embedding_mlp,
                              ![req.inst].model.user_embedding_gmf = ex.model.user_embedding_gmf]
          /\ reqs' = [reqs EXCEPT
                         ![r].pc = "train",
                         ![r].wrote = [user_enc |-> ex.user_enc,
                                       rows |-> Len(ex.model.user_embedding_mlp)]]
    /\ UNCHANGED <<disk, mem, hashseed, last, firebase>>

\* fine_tune.py lines 115-141 on the request's instance
Train(r) ==
    /\ reqs[r].pc = "train"
    /\ LET req == reqs[r]
           o == heap[req.inst]
           t == fine_tune_user(o.model, o.jbf_module, o.user_encoder, o.item_encoder,
                               o.base_bias_df, req.numeric_id,
                               AsSeq([k \in 1..Len(req.payload) |->
                                   [UserID |-> req.numeric_id,
                                    MovieID |-> req.payload[k].movieId,
                                    Rating |-> req.payload[k].rating]]))
       IN IF t.raised # "none"
          THEN Finish(r, 500, t.raised) /\ UNCHANGED heap
          ELSE /\ heap' = [heap EXCEPT ![req.inst].model = t.model,
                                       ![req.inst].user_encoder = t.user_enc]
               /\ reqs' = [reqs EXCEPT ![r].pc = "respond"]
    /\ UNCHANGED <<disk, mem, hashseed, last, firebase>>

\* main.py lines 226-246
Respond(r) ==
    /\ reqs[r].pc = "respond"
    /\ IF ~call_binds(handler_call_args, recommend_and_explain_required)
       THEN Finish(r, 500, "TypeError")
       ELSE Finish(r, 200, "")
    /\ UNCHANGED <<disk, mem, hashseed, last, heap, firebase>>

\* the corpora the artifacts served to requests in flight were trained on
ConcurrentCorpora == {CorpusA, CorpusB}

\* the service once the offline training has run: requests in flight at once
NextConcurrent ==
    \/ (heap = <<>> /\ \E ratings \in ConcurrentCorpora, seed \in 0..MaxSeed :
                           TrainInitial(ratings, seed))
    \/ \E r \in Requests, c \in ConcurrentCalls : Arrive(r, c[1], c[2])
    \/ \E r \in Requests : HandlerLoad(r)
    \/ \E r \in Requests : ExpandRead(r)
    \/ \E r \in Requests : ExpandWrite(r)
    \/ \E r \in Requests : Train(r)
    \/ \E r \in Requests : Respond(r)

SpecConcurrent == Init /\ [][NextConcurrent]_vars

(***************************************************************************)
(* Properties.                                                             *)
(***************************************************************************)
\* lines 158-172 of fine_tune.py for one item: the raw score the model
\* gives user_id against item index i, [raised, value]
predict(model, user_encoder, user_id, i) ==
    LET score(uid) ==
            IF uid.raised # "none" THEN [raised |-> "ValueError", value |-> 0]
            ELSE IF ~IndexOK(model, <<uid.value[1]>>, <<i>>)
            THEN [raised |-> "IndexError", value |-> 0]
            ELSE [raised |-> "none", value |-> forward(model, uid.value[1], i)]
    IN score(LabelEncoder_transform(user_encoder, <<user_id>>))

\* the identities of ids that are not in known, in order of first occurrence
RECURSIVE NewIdentities(_, _)
NewIdentities(known, ids) ==
    IF ids = <<>> THEN <<>>
    ELSE IF ids[1] \in known THEN NewIdentities(known, Tail(ids))
    ELSE <<ids[1]>> \o NewIdentities(known \cup {ids[1]}, Tail(ids))

\* the items of a batch
ItemsOf(batch) == {batch[k].movieId : k \in 1..Len(batch)}

\* the items that have a row in a bias table
BiasItems(bias_df) == {bias_df[k].MovieID : k \in 1..Len(bias_df)}

\* C1: in every state reached through train_initial, load_model_and_encoders
\* and fine_tune_user calls, each user-embedding table has as many rows as
\* the user encoder has identities and each item-embedding table as many
\* rows as the item encoder has identities.
C1_TableRowsMatchEncoders ==
    mem.loaded =>
        /\ Len(mem.model.user_embedding_mlp) = Len(mem.user_encoder)
        /\ Len(mem.model.user_embedding_gmf) = Len(mem.user_encoder)
        /\ Len(mem.model.item_embedding_mlp) = Len(mem.item_encoder)
        /\ Len(mem.model.item_embedding_gmf) = Len(mem.item_encoder)

\* C2: a fine_tune_user call that adapts a user who was not in the user
\* encoder leaves the score of every pre-existing user against every item
\* as it was before the call.
C2_ExistingUsersKeepScores ==
    [][(/\ last'.op = "fine_tune_user"
        /\ last'.raised = "none"
        /\ last'.new_user_id \notin Range(mem.user_encoder))
       => \A k \in 1..Len(mem.user_encoder), i \in 0..(Len(mem.item_encoder) - 1) :
              predict(mem'.model, mem'.user_encoder, mem.user_encoder[k], i)
                  = predict(mem.model, mem.user_encoder, mem.user_encoder[k], i)]_vars

\* C3: a fine_tune_recommend request of a user with a stored profile whose
\* numeric identity is new, with a non-empty batch of ratings on known
\* items, served from a complete data directory, returns a ranked list
\* (status 200) after adapting that user.
C3_NewUserRequestRanks ==
    (/\ last.op = "fine_tune_recommend"
     /\ disk.has = Files
     /\ last.uid \in Profiles
     /\ last.ratings # <<>>
     /\ ItemsOf(last.ratings) \subseteq Range(disk.item_encoder)
     /\ last.response.numeric_id \notin Range(disk.user_encoder))
    => /\ last.response.status = 200
       /\ last.response.adapted
       /\ last.response.recommendations # <<>>

\* C4: on one loaded model and encoder, the fine_tune_user calls append one
\* identity to the user encoder and one row to each user-embedding table
\* per distinct new user, however often that user is adapted: a second call
\* for the same user changes no table size and no encoder content.
C4_AppendedOncePerUser ==
    mem.loaded =>
        LET new == NewIdentities(Range(disk.user_encoder), mem.adapted)
        IN /\ mem.user_encoder = disk.user_encoder \o new
           /\ Len(mem.model.user_embedding_mlp) = Len(disk.model.user_embedding_mlp) + Len(new)
           /\ Len(mem.model.user_embedding_gmf) = Len(disk.model.user_embedding_gmf) + Len(new)
           /\ Len(mem.model.item_embedding_mlp) = Len(disk.model.item_embedding_mlp)
           /\ Len(mem.model.item_embedding_gmf) = Len(disk.model.item_embedding_gmf)
           /\ mem.item_encoder = disk.item_encoder

\* a new user has been adapted twice in a row on the same loaded objects
C4_Witness ==
    /\ mem.loaded
    /\ last.op = "fine_tune_user"
    /\ Len(mem.adapted) = 2
    /\ mem.adapted[1] = mem.adapted[2]
    /\ mem.adapted[1] \notin Range(disk.user_encoder)
    /\ Len(mem.user_encoder) = Len(disk.user_encoder) + 1

\* C5: the user encoder stays an append-only bijection under fine_tune_user:
\* encoding an identity yields the index of the position it occupies in the
\* encoder, so a new identity gets the previous cardinality as its index and
\* no two identities share an index.
C5_EncoderIsBijection ==
    mem.loaded =>
        \A k \in 1..Len(mem.user_encoder) :
            LabelEncoder_transform(mem.user_encoder, <<mem.user_encoder[k]>>)
                = [raised |-> "none", value |-> <<k - 1>>]

\* C6: fine_tune_user with an empty ratings batch for a user who is not in
\* the encoder is a no-op: the encoder and every parameter stay as they were.
C6_EmptyBatchIsNoOp ==
    [][(/\ last'.op = "fine_tune_user"
        /\ last'.ratings = <<>>
        /\ last'.new_user_id \notin Range(mem.user_encoder))
       => /\ mem'.user_encoder = mem.user_encoder
          /\ mem'.model = mem.model]_vars

\* C7: when the batch given to fine_tune_user holds an item that is not in
\* the item encoder, the item is appended to the item encoder, each
\* item-embedding table gets one more row, and the call does not fail.
C7_NewItemIsAppended ==
    [][(/\ last'.op = "fine_tune_user"
        /\ Cardinality(ItemsOf(last'.ratings) \ Range(mem.item_encoder)) = 1)
       => /\ last'.raised = "none"
          /\ ItemsOf(last'.ratings) \subseteq Range(mem'.item_encoder)
          /\ Len(mem'.model.item_embedding_mlp) = Len(mem.model.item_embedding_mlp) + 1
          /\ Len(mem'.model.item_embedding_gmf) = Len(mem.model.item_embedding_gmf) + 1]_vars

\* C8: in fine_tune_user, when every rated item is in the item encoder, no
\* rating of the batch is dropped from the training frame, an item without
\* a row in the bias table is trained with the all-zero bias vector, and
\* the call fails only when the user index lies outside the user tables.
C8_MissingBiasIsZero ==
    (/\ last.op = "fine_tune_user"
     /\ ItemsOf(last.ratings) \subseteq Range(mem.item_encoder))
    => /\ \A k \in 1..Len(last.ratings) :
              \E j \in 1..Len(last.df) :
                  /\ last.df[j].MovieID = last.ratings[k].movieId
                  /\ last.df[j].Rating = last.ratings[k].rating
       /\ \A j \in 1..Len(last.df) :
              last.df[j].MovieID \notin BiasItems(mem.base_bias_df)
                  => last.df[j].b = ZeroBias
       /\ \/ last.raised = "none"
          \/ /\ last.raised = "IndexError"
             /\ \E j \in 1..Len(last.df) :
                    last.df[j].user >= Len(mem.model.user_embedding_mlp)

\* a call has trained on a rated item that is in the item encoder and has
\* no row in the bias table
C8_Witness ==
    /\ last.op = "fine_tune_user"
    /\ last.raised = "none"
    /\ ItemsOf(last.ratings) \subseteq Range(mem.item_encoder)
    /\ \E j \in 1..Len(last.df) :
           /\ last.df[j].MovieID \notin BiasItems(mem.base_bias_df)
           /\ last.df[j].b = ZeroBias

\* C9: a fine_tune_recommend request that has adapted a new user leaves the
\* updated encoder and tables in the data directory: the stored user
\* encoder holds the user and the stored user tables hold the added row.
C9_AdaptationIsPersisted ==
    [][(/\ last'.op = "fine_tune_recommend"
        /\ last'.response.adapted
        /\ last'.response.numeric_id \notin Range(disk.user_encoder))
       => /\ last'.response.numeric_id \in Range(disk'.user_encoder)
          /\ Len(disk'.model.user_embedding_mlp) = Len(disk.model.user_embedding_mlp) + 1
          /\ Len(disk'.model.user_embedding_gmf) = Len(disk.model.user_embedding_gmf) + 1]_vars

\* C10: recommend_and_explain with no preference signal, for a user of the
\* encoder and a top_k within the catalogue, raises no error and returns
\* top_k results.
C10_NoSignalStillRanks ==
    (/\ last.op = "recommend_and_explain"
     /\ last.ratings = <<>>
     /\ last.new_user_id \in Range(mem.user_encoder)
     /\ last.top_k <= Len(mem.item_encoder))
    => /\ last.raised = "none"
       /\ Len(last.results) = last.top_k

\* C11: recommend_and_explain returns the top_k items of highest final
\* score in descending score order, items of equal final score in ascending
\* item index order, so that the returned order is a function of the
\* scores alone.
C11_RankedWithIndexTieBreak ==
    (last.op = "recommend_and_explain" /\ last.raised = "none")
    => /\ Len(last.top_idx) = last.top_k
       /\ \A a, b \in 1..Len(last.top_idx) :
              a < b => \/ last.final_scores[last.top_idx[a] + 1]
                              > last.final_scores[last.top_idx[b] + 1]
                       \/ /\ last.final_scores[last.top_idx[a] + 1]
                                 = last.final_scores[last.top_idx[b] + 1]
                          /\ last.top_idx[a] < last.top_idx[b]
       /\ \A j \in 0..(Len(last.final_scores) - 1) :
              (\A a \in 1..Len(last.top_idx) : last.top_idx[a] # j)
                  => \A a \in 1..Len(last.top_idx) :
                         \/ last.final_scores[last.top_idx[a] + 1] > last.final_scores[j + 1]
                         \/ /\ last.final_scores[last.top_idx[a] + 1] = last.final_scores[j + 1]
                            /\ last.top_idx[a] < j

\* CombinedBiasInteractionModule.forward, lines 54-56: the embeddings of
\* the six bias values followed by their pairwise products
jbf_input(jbf, bias) ==
    LET n == Len(BIAS_COLS)
        pairs(emb) == ConcatAll(AsSeq([a \in 1..n |->
                          AsSeq([d \in 1..(n - a) |-> emb[a] * emb[a + d]])]))
        cat(emb) == emb \o pairs(emb)
    IN cat(AsSeq([c \in 1..n |-> ReLU(bias[c]) * jbf.W[c]]))

\* models.ExplanationVectorExtractor.__init__: the projection to six scores
ExplanationVectorExtractor(input_dim, seed) ==
    [w |-> AsSeq([c \in 1..Len(BIAS_COLS) |->
               AsSeq([j \in 1..input_dim |-> RandInit(seed, c + j)])]),
     b |-> AsSeq([c \in 1..Len(BIAS_COLS) |-> RandInit(seed, c)])]

\* a softmax, given by its logits shifted by their maximum
softmax(logits) == AsSeq([c \in 1..Len(logits) |-> logits[c] - Max(Range(logits))])

\* models.ExplanationVectorExtractor.forward: softmax(proj(jbf_input))
ExplanationVectorExtractor_forward(extractor, x) ==
    softmax(AsSeq([c \in 1..Len(BIAS_COLS) |->
        SumSeq(AsSeq([j \in 1..Len(x) |-> extractor.w[c][j] * x[j]])) + extractor.b[c]]))

\* the bias vector recommend_and_explain holds for item mid (lines 164-165)
BiasRowOf(base_bias_df, mid) == item_bias(base_bias_df, <<mid>>)[1]

\* C12: the attribution vector E_ui of every returned item is the
\* attribution the joint bias module yields for the bias vector of that
\* item: the explanation vector extracted from the module's embedding of it.
C12_AttributionFromJointBias ==
    (last.op = "recommend_and_explain" /\ last.raised = "none")
    => \A k \in 1..Len(last.results) :
           last.results[k].E_ui
               = ExplanationVectorExtractor_forward(
                     ExplanationVectorExtractor(Len(jbf_input(mem.jbf_module, ZeroBias)), 0),
                     jbf_input(mem.jbf_module,
                               BiasRowOf(mem.base_bias_df, last.results[k].movie_id)))

\* C13: recommend_and_explain for a user identity that is not in the user
\* encoder fails with the encoder's unseen-label error (ValueError) and
\* computes no score and no result.
C13_UnknownIdentityFails ==
    (last.op = "recommend_and_explain" /\ last.new_user_id \notin Range(mem.user_encoder))
    => /\ last.raised = "ValueError"
       /\ last.final_scores = <<>>
       /\ last.top_idx = <<>>
       /\ last.results = <<>>

\* a ranking call was made for an identity the encoder does not hold, on a
\* model whose tables have a row at the position a search would give it
C13_Witness ==
    /\ last.op = "recommend_and_explain"
    /\ last.new_user_id \notin Range(mem.user_encoder)
    /\ last.raised = "ValueError"
    /\ Len(mem.user_encoder) < Len(mem.model.user_embedding_mlp)

\* C14: a load from artifacts whose user (or item) encoder cardinality
\* differs from the row count of the saved user (or item) embedding table
\* raises and returns no servable model.
C14_MismatchedLoadRefused ==
    (/\ last.op = "load_model_and_encoders"
     /\ disk.has = Files
     /\ \/ Len(disk.user_encoder) # Len(disk.model.user_embedding_mlp)
        \/ Len(disk.item_encoder) # Len(disk.model.item_embedding_mlp))
    => last.raised # "none"

\* C15: a failing LLM call never aborts recommend_and_explain: the call
\* raises exactly when the ranking itself raises, whatever the client does;
\* every selected item is in the results at its rank, an item whose LLM call
\* failed carries the placeholder explanation, and everything else in the
\* results is what a client that never fails would have given.
C15_LlmFailureKeepsRanking ==
    last.op = "recommend_and_explain"
    => /\ last.raised = rank_scores(mem.model, mem.jbf_module, mem.user_encoder,
                                    mem.item_encoder, mem.base_bias_df, last.new_user_id,
                                    last.ratings, last.top_k).raised
       /\ last.raised = "none"
          => /\ Len(last.results) = last.top_k
             /\ last.top_idx \in TopK(last.final_scores, last.top_k)
             /\ \A k \in 1..Len(last.results) :
                    LET mid == mem.item_encoder[last.top_idx[k] + 1]
                        entry == last.results[k]
                    IN /\ entry.movie_id = mid
                       /\ mid \in last.client => entry.explanation = "[LLM generation failed]"
                       /\ mid \notin last.client => entry.explanation = "text"
                       /\ [entry EXCEPT !.explanation = "text"]
                              = result_entry(mid, BiasRowOf(mem.base_bias_df, mid), {})

\* a ranking succeeded although the LLM call of one of its recommended
\* items failed, beside an item whose call went through
C15_Witness ==
    /\ last.op = "recommend_and_explain"
    /\ last.raised = "none"
    /\ \E k \in 1..Len(last.results) : last.results[k].movie_id \in last.client
    /\ \E k \in 1..Len(last.results) : last.results[k].movie_id \notin last.client

\* C16: a request served from a complete data directory whose uid has no
\* profile is answered 404 'User not found', and one whose payload has no
\* ratings 400 'No ratings provided'; neither is answered with status 500.
C16_PreconditionErrorsKeepStatus ==
    (last.op = "fine_tune_recommend" /\ disk.has = Files)
    => /\ last.uid \notin Profiles
          => (last.response.status = 404 /\ last.response.detail = "User not found")
       /\ (last.uid \in Profiles /\ last.ratings = <<>>)
          => (last.response.status = 400 /\ last.response.detail = "No ratings provided")

\* C17: the numeric id of a uid is the same in every request, across
\* process runs too: no step changes the numeric id a uid maps to.
C17_NumericIdStableAcrossRuns ==
    [][\A uid \in Uids : numeric_id_of(uid, hashseed') = numeric_id_of(uid, hashseed)]_vars

\* the positions at which a request reads or updates the objects it loaded
Adapting == {"expand_read", "expand_write", "train"}

\* C18: under every interleaving of requests in flight, no two requests
\* that are adapting hold the same model and encoder instance, and once a
\* request has appended to its instance the encoder it wrote and the row
\* count it wrote are still there until the request ends.
C18_SingleFlightPerInstance ==
    /\ \A r1, r2 \in Requests :
           (r1 # r2 /\ reqs[r1].pc \in Adapting /\ reqs[r2].pc \in Adapting)
           => reqs[r1].inst # reqs[r2].inst
    /\ \A r \in Requests :
           reqs[r].pc \in {"train", "respond"}
           => /\ heap[reqs[r].inst].user_encoder = reqs[r].wrote.user_enc
              /\ Len(heap[reqs[r].inst].model.user_embedding_mlp) = reqs[r].wrote.rows
              /\ Len(heap[reqs[r].inst].model.user_embedding_gmf) = reqs[r].wrote.rows
              /\ reqs[r].numeric_id \in Range(heap[reqs[r].inst].user_encoder)

\* two requests in flight have both appended, each its own identity, to
\* objects loaded from the same artifacts, and neither has ended
C18_Witness ==
    \E r1, r2 \in Requests :
        /\ r1 # r2
        /\ reqs[r1].pc = "train" /\ reqs[r2].pc = "train"
        /\ reqs[r1].numeric_id # reqs[r2].numeric_id
        /\ reqs[r1].numeric_id \notin Range(disk.user_encoder)
        /\ reqs[r2].numeric_id \notin Range(disk.user_encoder)
        /\ Len(reqs[r1].wrote.user_enc) = Len(disk.user_encoder) + 1
        /\ Len(reqs[r2].wrote.user_enc) = Len(disk.user_encoder) + 1

\* the values of bias dimension c in the table on disk
BiasColumn(c) == {disk.bias[k].b[c] : k \in 1..Len(disk.bias)}

\* the number of ratings of movie m in the corpus of the last job
RatingCount(m) == Cardinality({k \in 1..Len(last.corpus) : last.corpus[k].MovieID = m})

\* the build of the bias table on a non-empty corpus has just ended
BuiltNonEmpty ==
    /\ last.op = "build_bias_features"
    /\ last.corpus # <<>>

\* C19 (as amended): for a non-empty corpus build_bias_features completes,
\* every one of the six bias values lies in [0,1], and a dimension either
\* is 0 in every row (its raw values are all equal) or has a row at 1 and a
\* row at 0; for PB, whose raw value is the rating count of the movie, the
\* most rated movies are at 1 and the least rated at 0 unless all movies
\* are rated equally often, and then PB is 0 everywhere.
C19_ScaledToUnitInterval ==
    BuiltNonEmpty
    => /\ last.raised = "none"
       /\ Len(disk.bias) >= 1
       /\ \A c \in 1..Len(BIAS_COLS) :
              /\ BiasColumn(c) \subseteq 0..BiasScale
              /\ BiasColumn(c) = {0} \/ {0, BiasScale} \subseteq BiasColumn(c)
       /\ LET counts == {RatingCount(disk.bias[k].MovieID) : k \in 1..Len(disk.bias)}
          IN \A k \in 1..Len(disk.bias) :
                 LET n == RatingCount(disk.bias[k].MovieID)
                 IN /\ Cardinality(counts) = 1 => disk.bias[k].b[1] = 0
                    /\ (Cardinality(counts) > 1 /\ \A m \in counts : m <= n)
                       => disk.bias[k].b[1] = BiasScale
                    /\ (Cardinality(counts) > 1 /\ \A m \in counts : m >= n)
                       => disk.bias[k].b[1] = 0

\* a table was built from a corpus whose movies are not rated equally
\* often: PB spans 0 and 1, and a demographic dimension does too
C19_Witness ==
    /\ BuiltNonEmpty
    /\ last.raised = "none"
    /\ Cardinality({RatingCount(disk.bias[k].MovieID) : k \in 1..Len(disk.bias)}) > 1
    /\ {0, BiasScale} \subseteq BiasColumn(1)
    /\ \E c \in 3..Len(BIAS_COLS) : {0, BiasScale} \subseteq BiasColumn(c)

\* C19 (as stated): for a non-empty corpus every bias value lies in [0,1]
\* and in each of the six dimensions the maximum maps to 1 and the minimum
\* to 0.
C19_EveryDimensionSpansUnitInterval ==
    BuiltNonEmpty
    => /\ last.raised = "none"
       /\ \A c \in 1..Len(BIAS_COLS) :
              /\ BiasColumn(c) \subseteq 0..BiasScale
              /\ {0, BiasScale} \subseteq BiasColumn(c)

\* C20: build_bias_features on an empty corpus completes without an error
\* and leaves a bias table on disk in which every bias value is 0.
C20_EmptyCorpusBuildsZeros ==
    (last.op = "build_bias_features" /\ last.corpus = <<>>)
    => /\ last.raised = "none"
       /\ "combined_biases_with_pred.pkl" \in disk.has
       /\ \A c \in 1..Len(BIAS_COLS) : BiasColumn(c) \subseteq {0}

\* the demographic attributes build_bias_features computes a bias for
GroupFields == {"Gender", "Age", "Occupation", "Zip-code"}

\* the distinct users of the profile table whose group_field is v
ProfileGroup(users, group_field, v) ==
    {users.rows[k]["UserID"] : k \in {i \in 1..Len(users.rows) : users.rows[i][group_field] = v}}

\* C21: before normalization the demographic bias of a ratings row of item
\* X by a user with attribute value G is m/|G|, m the number of distinct
\* users of G who rated X and |G| the number of distinct users of the
\* profile table that hold G, those without any rating included.
C21_ProportionOverProfileGroup ==
    BuiltNonEmpty
    => \A group_field \in GroupFields : \A k \in 1..Len(last.corpus) :
           LET v == AttrOf(UsersTable, last.corpus[k].UserID, group_field)
               G == ProfileGroup(UsersTable, group_field, v)
               m == Cardinality({u \in G : \E j \in 1..Len(last.corpus) :
                                    /\ last.corpus[j].UserID = u
                                    /\ last.corpus[j].MovieID = last.corpus[k].MovieID})
               raw == proportional_bias_raw(last.corpus, UsersTable, group_field)[k]
           IN v # "nan" => raw.n * Cardinality(G) = m * raw.d

\* the rows of the sorted corpus that user and item of row k share
PairRows(sorted, k) ==
    SelectSeq(AsSeq([j \in 1..Len(sorted) |-> j]),
              LAMBDA j : sorted[j].UserID = sorted[k].UserID /\ sorted[j].MovieID = sorted[k].MovieID)

\* C22: before normalization the interaction bias of a ratings row is
\* sum(rating * weight) / sum(weight) over the interactions of its user
\* with its item, weight = exp(-eta * recency index).
C22_DecayWeightedRating ==
    BuiltNonEmpty
    => LET sorted == sort_values(last.corpus)
           raw == interaction_bias_raw(sorted)
           weight(j) == ExpDecay(cumcount(sorted, j)).n
       IN \A k \in 1..Len(sorted) :
              LET rows == PairRows(sorted, k)
                  sum_w == SumSeq(AsSeq([i \in 1..Len(rows) |-> weight(rows[i])]))
                  sum_rw == SumSeq(AsSeq([i \in 1..Len(rows) |->
                                sorted[rows[i]].Rating * weight(rows[i])]))
              IN raw[k].n * sum_w = raw[k].d * sum_rw

\* the rows of user u in ascending timestamp order, rows of one timestamp
\* in the order the corpus holds them
UserRowsInTimeOrder(corpus, u) ==
    LET ts == SortedSeq({corpus[k].Timestamp : k \in {i \in 1..Len(corpus) : corpus[i].UserID = u}})
    IN ConcatAll(AsSeq([i \in 1..Len(ts) |->
           SelectSeq(corpus, LAMBDA r : r.UserID = u /\ r.Timestamp = ts[i])]))

\* C23: for every user the rows that get recency index 0, 1, 2, ... are the
\* user's rows in ascending timestamp order whatever the order of the input,
\* rows of equal timestamp in the order they were ingested; the interaction
\* bias before scaling is the decay of that index.
C23_RecencyIndexByTimestamp ==
    BuiltNonEmpty
    => LET sorted == sort_values(last.corpus)
           raw == interaction_bias_raw(sorted)
       IN \A u \in {last.corpus[k].UserID : k \in 1..Len(last.corpus)} :
              LET mine == SelectSeq(AsSeq([k \in 1..Len(sorted) |-> k]),
                                    LAMBDA k : sorted[k].UserID = u)
                  expected == UserRowsInTimeOrder(last.corpus, u)
              IN /\ Len(mine) = Len(expected)
                 /\ \A i \in 1..Len(mine) :
                        /\ [c \in DOMAIN expected[i] |-> sorted[mine[i]][c]] = expected[i]
                        /\ cumcount(sorted, mine[i]) = i - 1
                        /\ raw[mine[i]] = ExpDecay(i - 1)

\* a table was built from a corpus in which a user's later rating comes
\* before an earlier one, and two ratings of that user share a timestamp
C23_Witness ==
    /\ BuiltNonEmpty
    /\ last.raised = "none"
    /\ \E p, q \in 1..Len(last.corpus) :
           /\ p < q
           /\ last.corpus[p].UserID = last.corpus[q].UserID
           /\ last.corpus[p].Timestamp > last.corpus[q].Timestamp
    /\ \E p, q \in 1..Len(last.corpus) :
           /\ p < q
           /\ last.corpus[p].UserID = last.corpus[q].UserID
           /\ last.corpus[p].Timestamp = last.corpus[q].Timestamp
           /\ last.corpus[p].MovieID > last.corpus[q].MovieID

\* the position in BIAS_COLS of the demographic bias of group_field
FieldColumn(group_field) ==
    IF group_field = "Gender" THEN 3 ELSE IF group_field = "Age" THEN 4
    ELSE IF group_field = "Occupation" THEN 5 ELSE 6

\* C24: the demographic bias degrades to 0 and the build does not fail: a
\* row of a user whose attribute value is missing has bias 0 before
\* normalization (and 0 in the table), and a dimension whose column is
\* absent from the profile table is 0 in every row of the table.
C24_MissingAttributeIsZero ==
    BuiltNonEmpty
    => /\ last.raised = "none"
       /\ \A group_field \in GroupFields :
              IF group_field \notin last.users.columns
              THEN BiasColumn(FieldColumn(group_field)) = {0}
              ELSE LET raw == proportional_bias_raw(last.corpus, last.users, group_field)
                   IN /\ \A k \in 1..Len(last.corpus) :
                             AttrOf(last.users, last.corpus[k].UserID, group_field) = "nan"
                             => raw[k] = Frac(0, 1)
                      /\ \A k \in 1..Len(disk.bias) :
                             AttrOf(last.users, disk.bias[k].UserID, group_field) = "nan"
                             => disk.bias[k].b[FieldColumn(group_field)] = 0

\* a table was built with a profile table that has no Age column, from
\* ratings of a user without occupation and of a user with one, and a
\* demographic dimension of the table is not 0 everywhere
C24_Witness ==
    /\ BuiltNonEmpty
    /\ last.raised = "none"
    /\ "Age" \notin last.users.columns
    /\ \E k \in 1..Len(last.corpus) :
           AttrOf(last.users, last.corpus[k].UserID, "Occupation") = "nan"
    /\ \E k \in 1..Len(last.corpus) :
           AttrOf(last.users, last.corpus[k].UserID, "Occupation") # "nan"
    /\ \E group_field \in GroupFields : BiasColumn(FieldColumn(group_field)) # {0}

\* C25: the table build_bias_features writes has exactly one row, hence one
\* bias vector, for every (user, item) pair that has a rating in the corpus,
\* and no other row.
C25_OneVectorPerPair ==
    (BuiltNonEmpty /\ last.raised = "none")
    => /\ \A j \in 1..Len(last.corpus) :
              Cardinality({k \in 1..Len(disk.bias) :
                               /\ disk.bias[k].UserID = last.corpus[j].UserID
                               /\ disk.bias[k].MovieID = last.corpus[j].MovieID}) = 1
       /\ \A k \in 1..Len(disk.bias) : \E j \in 1..Len(last.corpus) :
              /\ disk.bias[k].UserID = last.corpus[j].UserID
              /\ disk.bias[k].MovieID = last.corpus[j].MovieID

\* C26: a fine_tune_user call that adds a new user changes nothing but the
\* rows appended for that user: every row the user tables held before the
\* call, the item tables, the feed-forward and output layers and the
\* parameters of the joint bias module have the values they had before.
C26_OnlyNewUserRowsTrained ==
    [][(/\ last'.op = "fine_tune_user"
        /\ last'.raised = "none"
        /\ last'.new_user_id \notin Range(mem.user_encoder))
       => /\ mem'.jbf_module = mem.jbf_module
          /\ mem'.model.item_embedding_mlp = mem.model.item_embedding_mlp
          /\ mem'.model.item_embedding_gmf = mem.model.item_embedding_gmf
          /\ mem'.model.mlp = mem.model.mlp
          /\ mem'.model.output_layer = mem.model.output_layer
          /\ \A r \in 1..Len(mem.model.user_embedding_mlp) :
                 /\ mem'.model.user_embedding_mlp[r] = mem.model.user_embedding_mlp[r]
                 /\ mem'.model.user_embedding_gmf[r] = mem.model.user_embedding_gmf[r]]_vars

\* C27: after a fine_tune_user call that appended a new user, the index the
\* user encoder gives that user is the index of the row the call appended to
\* each user-embedding table (the last one), and it is the index the rows of
\* the training frame carry.
C27_NewUserIndexIsAppendedRow ==
    (/\ last.op = "fine_tune_user"
     /\ last.raised = "none"
     /\ mem.user_encoder # <<>>
     /\ mem.user_encoder[Len(mem.user_encoder)] = last.new_user_id
     /\ last.new_user_id \notin Range(SubSeq(mem.user_encoder, 1, Len(mem.user_encoder) - 1)))
    => LET uid == LabelEncoder_transform(mem.user_encoder, <<last.new_user_id>>)
       IN /\ uid.raised = "none"
          /\ uid.value[1] = Len(mem.model.user_embedding_mlp) - 1
          /\ uid.value[1] = Len(mem.model.user_embedding_gmf) - 1
          /\ \A k \in 1..Len(last.df) : last.df[k].user = uid.value[1]

\* C28: the training frame fine_tune_user builds has exactly one row per
\* rating of the batch, whatever number of bias rows the bias table holds
\* for the rated item.
C28_OneTrainingRowPerRating ==
    (last.op = "fine_tune_user" /\ last.raised = "none")
    => /\ Len(last.df) = Len(last.ratings)
       /\ \A k \in 1..Len(last.df) :
              /\ last.df[k].MovieID = last.ratings[k].movieId
              /\ last.df[k].Rating = last.ratings[k].rating

\* C29: a request never updates the embedding rows of the identities the
\* user encoder held when the request loaded it, also when the numeric id
\* of the uid is the id of such an identity: after the training of the
\* request the rows at the indices of those identities are as loaded.
C29_ExistingRowsUntouchedByRequest ==
    \A r \in Requests :
        reqs[r].pc = "respond"
        => \A k \in 1..Min({Len(reqs[r].read.user_enc),
                             Len(reqs[r].read.model.user_embedding_mlp)}) :
               /\ heap[reqs[r].inst].model.user_embedding_mlp[k]
                      = reqs[r].read.model.user_embedding_mlp[k]
               /\ heap[reqs[r].inst].model.user_embedding_gmf[k]
                      = reqs[r].read.model.user_embedding_gmf[k]

\* the calls of this process before call k that returned an app
Succeeded(k) == {j \in 1..(k - 1) : firebase.log[j].raised = "none"}

\* C30: in one process initialize_app runs at most once; every call after a
\* successful one returns the app that call returned and initialises
\* nothing; while no call has succeeded, a call with an unset or
\* non-existent credentials path raises RuntimeError and the cache stays
\* empty, and a call with a service account file initialises, whatever
\* number of calls failed before it.
C30_InitialisedOncePerProcess ==
    /\ Cardinality({k \in 1..Len(firebase.log) : firebase.log[k].initialised}) <= 1
    /\ (\A k \in 1..Len(firebase.log) : firebase.log[k].raised # "none") => firebase.app = 0
    /\ \A k \in 1..Len(firebase.log) :
           LET call == firebase.log[k]
           IN IF Succeeded(k) # {}
              THEN /\ call.raised = "none"
                   /\ ~call.initialised
                   /\ \A j \in Succeeded(k) : call.returned = firebase.log[j].returned
                   /\ call.returned = firebase.app
              ELSE /\ (call.cred_path = "" \/ ~PathExists(call.cred_path))
                      => (call.raised = "RuntimeError" /\ ~call.initialised)
                   /\ call.cred_path = "sa.json"
                      => (call.raised = "none" /\ call.initialised /\ call.returned # 0)

\* a process in which a call failed for a missing file, a later call
\* initialised, and a call after that, made without a credentials path,
\* got the cached app
C30_Witness ==
    /\ Len(firebase.log) = 3
    /\ firebase.log[1].cred_path = "missing.json" /\ firebase.log[1].raised = "RuntimeError"
    /\ firebase.log[2].initialised
    /\ firebase.log[3].cred_path = "" /\ firebase.log[3].returned = firebase.log[2].returned
    /\ firebase.app # 0

====
